---- MODULE Spec2Model ----
(***************************************************************************)
(* A model of street_art.py: a one-line street description is split into   *)
(* tokens, parsed into Building / Park / EmptyLot elements and printed as  *)
(* a bordered ASCII canvas.                                                *)
(*                                                                         *)
(* A Python str is modelled as a sequence of one-character strings.  A     *)
(* Python call that may raise is modelled as a record [err, val]: err is   *)
(* "none" and val the returned value, or err names the exception raised.   *)
(* Each recursive fill f(width, ...) is modelled by two recursions over the *)
(* same steps: f_raises follows the calls down to the base case or to the  *)
(* interpreter's recursion limit, f_rec builds the returned string.        *)
(***************************************************************************)
EXTENDS Integers, Sequences, FiniteSets, TLC

(***************************************************************************)
(* Bounds of the model.                                                    *)
(***************************************************************************)
\* longest street (number of tokens on the input line)
MaxParts == 2
\* building widths are 1..MaxBW
MaxBW == 2
\* the tall building's height (taller than a park)
MaxBH == 6
\* park widths are 4..MaxPW
MaxPW == 7
\* empty-lot widths are 1 and MaxLW
MaxLW == 3
\* trash patterns have 0..MaxPat characters
MaxPat == 2
\* depth at which the interpreter gives up on a recursion that does not
\* reach its base case (CPython: 1000 frames); larger than every width the
\* model draws
RecursionLimit == 50

(***************************************************************************)
(* Program constants.                                                      *)
(***************************************************************************)
ParkHeight == 5
LotHeight == 1

(***************************************************************************)
(* Python values and exceptions.                                           *)
(***************************************************************************)
Ok(v) == [err |-> "none", val |-> v]
Raise(e) == [err |-> e, val |-> <<>>]

\* a + b on str, the left operand evaluated first
Cat(a, b) ==
    IF a.err # "none" THEN a
    ELSE IF b.err # "none" THEN b
    ELSE Ok(a.val \o b.val)

DigitChars == <<"0", "1", "2", "3", "4", "5", "6", "7", "8", "9">>
DigitSet == {DigitChars[i] : i \in 1..10}
DigitVal(c) == (CHOOSE i \in 1..10 : DigitChars[i] = c) - 1

RECURSIVE DigitsValue(_)
DigitsValue(ds) ==
    IF ds = <<>> THEN 0
    ELSE 10 * DigitsValue(SubSeq(ds, 1, Len(ds) - 1)) + DigitVal(ds[Len(ds)])

\* int(s) for a str without whitespace: an optional sign, then decimal
\* digits, single underscores allowed between digits; ValueError otherwise
py_int(s) ==
    LET signed == Len(s) > 0 /\ s[1] \in {"+", "-"}
        body == IF signed THEN Tail(s) ELSE s
        wellformed ==
            /\ Len(body) > 0
            /\ \A i \in 1..Len(body) : body[i] \in DigitSet \cup {"_"}
            /\ body[1] # "_"
            /\ body[Len(body)] # "_"
            /\ \A i \in 1..(Len(body) - 1) : ~(body[i] = "_" /\ body[i + 1] = "_")
        mag == DigitsValue(SelectSeq(body, LAMBDA c : c # "_"))
    IN  IF ~wellformed THEN [err |-> "ValueError", val |-> 0]
        ELSE [err |-> "none", val |-> IF signed /\ s[1] = "-" THEN 0 - mag ELSE mag]

\* s.split(sep) for a one-character separator
RECURSIVE py_split(_, _)
py_split(s, sep) ==
    LET hits == {i \in 1..Len(s) : s[i] = sep}
    IN  IF hits = {} THEN <<s>>
        ELSE LET i == CHOOSE j \in hits : \A k \in hits : j <= k
             IN  <<SubSeq(s, 1, i - 1)>> \o py_split(SubSeq(s, i + 1, Len(s)), sep)

\* s[0:n], a negative n counting from the end
py_prefix(s, n) ==
    IF n >= 0 THEN SubSeq(s, 1, IF n < Len(s) THEN n ELSE Len(s))
    ELSE SubSeq(s, 1, IF Len(s) + n > 0 THEN Len(s) + n ELSE 0)

\* s * times
RECURSIVE py_repeat(_, _)
py_repeat(s, times) ==
    IF times <= 0 THEN <<>> ELSE s \o py_repeat(s, times - 1)

(***************************************************************************)
(* class Building                                                          *)
(***************************************************************************)
Building(width, height, brick) ==
    [kind |-> "Building", width |-> width, height |-> height, brick |-> brick]

RECURSIVE Building_single_line_raises(_, _)
Building_single_line_raises(width, depth) ==
    IF width = 0 THEN "none"
    ELSE IF depth >= RecursionLimit THEN "RecursionError"
    ELSE Building_single_line_raises(width - 1, depth + 1)

RECURSIVE Building_single_line_rec(_, _)
Building_single_line_rec(width, f) ==
    IF width = 0 THEN <<>> ELSE f \o Building_single_line_rec(width - 1, f)

Building_single_line(width, filling) ==
    IF Building_single_line_raises(width, 0) # "none"
    THEN Raise(Building_single_line_raises(width, 0))
    ELSE Ok(Building_single_line_rec(width, filling))

\* mutant: the row at the building's own height is left blank
Building_at_height_off_by_one(self, height) ==
    IF self.height <= height THEN Building_single_line(self.width, <<" ">>)
    ELSE Building_single_line(self.width, self.brick)

Building_at_height(self, height) ==
    IF self.height < height THEN Building_single_line(self.width, <<" ">>)
    ELSE Building_single_line(self.width, self.brick)

(***************************************************************************)
(* class Park                                                              *)
(***************************************************************************)
Park(width, fol) ==
    [kind |-> "Park", width |-> width, height |-> ParkHeight, fol |-> fol]

RECURSIVE Park_fill_line_raises(_, _)
Park_fill_line_raises(width, depth) ==
    IF width = 0 THEN "none"
    ELSE IF depth >= RecursionLimit THEN "RecursionError"
    ELSE Park_fill_line_raises(width - 1, depth + 1)

RECURSIVE Park_fill_line_rec(_, _)
Park_fill_line_rec(width, f) ==
    IF width = 0 THEN <<>> ELSE f \o Park_fill_line_rec(width - 1, f)

Park_fill_line(width, filling) ==
    IF Park_fill_line_raises(width, 0) # "none"
    THEN Raise(Park_fill_line_raises(width, 0))
    ELSE Ok(Park_fill_line_rec(width, filling))

\* mutant: the right padding takes what the left padding leaves
Park_tree_line_balanced(width, middle, filling) ==
    LET space_width == (width - middle) \div 2
        space == Park_fill_line(space_width, <<" ">>)
        tree_part == Park_fill_line(middle, filling)
        right == Park_fill_line(width - middle - space_width, <<" ">>)
    IN  Cat(Cat(space, tree_part), right)

Park_tree_line(width, middle, filling) ==
    LET space_width == (width - middle) \div 2
        space == Park_fill_line(space_width, <<" ">>)
        tree_part == Park_fill_line(middle, filling)
    IN  Cat(Cat(space, tree_part), space)

\* mutant: the two foliage bands below the top leaf are exchanged
Park_at_height_bands_swapped(self, height) ==
    IF 5 < height THEN Park_fill_line(self.width, <<" ">>)
    ELSE IF 2 >= height THEN Park_tree_line(self.width, 1, <<"|">>)
    ELSE IF height = 3 THEN Park_tree_line(self.width, 3, self.fol)
    ELSE IF height = 4 THEN Park_tree_line(self.width, 5, self.fol)
    ELSE Park_tree_line(self.width, 1, self.fol)

Park_at_height(self, height) ==
    IF 5 < height THEN Park_fill_line(self.width, <<" ">>)
    ELSE IF 2 >= height THEN Park_tree_line(self.width, 1, <<"|">>)
    ELSE IF height = 3 THEN Park_tree_line(self.width, 5, self.fol)
    ELSE IF height = 4 THEN Park_tree_line(self.width, 3, self.fol)
    ELSE Park_tree_line(self.width, 1, self.fol)

(***************************************************************************)
(* class EmptyLot                                                          *)
(***************************************************************************)
EmptyLot(width, trash) ==
    [kind |-> "EmptyLot", width |-> width, height |-> LotHeight, trash |-> trash]

RECURSIVE EmptyLot_empty_line_raises(_, _)
EmptyLot_empty_line_raises(width, depth) ==
    IF width = 0 THEN "none"
    ELSE IF depth >= RecursionLimit THEN "RecursionError"
    ELSE EmptyLot_empty_line_raises(width - 1, depth + 1)

RECURSIVE EmptyLot_empty_line_rec(_, _)
EmptyLot_empty_line_rec(width, f) ==
    IF width = 0 THEN <<>> ELSE f \o EmptyLot_empty_line_rec(width - 1, f)

EmptyLot_empty_line(width) ==
    IF EmptyLot_empty_line_raises(width, 0) # "none"
    THEN Raise(EmptyLot_empty_line_raises(width, 0))
    ELSE Ok(EmptyLot_empty_line_rec(width, <<" ">>))

RECURSIVE EmptyLot_change_spaces(_)
EmptyLot_change_spaces(trash) ==
    IF Len(trash) = 0 THEN <<>>
    ELSE IF trash[1] = "_" THEN <<" ">> \o EmptyLot_change_spaces(Tail(trash))
    ELSE <<trash[1]>> \o EmptyLot_change_spaces(Tail(trash))

\* mutant: the remainder after the full repeats is dropped
EmptyLot_trash_to_width_no_remainder(self, trash) ==
    IF Len(trash) >= self.width THEN Ok(py_prefix(trash, self.width))
    ELSE IF Len(trash) = 0 THEN Raise("ZeroDivisionError")
    ELSE Ok(py_repeat(trash, self.width \div Len(trash)))

EmptyLot_trash_to_width(self, trash) ==
    IF Len(trash) >= self.width THEN Ok(py_prefix(trash, self.width))
    ELSE IF Len(trash) = 0 THEN Raise("ZeroDivisionError")
    ELSE LET times == self.width \div Len(trash)
             rem == self.width % Len(trash)
         IN  Ok(py_repeat(trash, times) \o py_prefix(trash, rem))

EmptyLot_at_height(self, height) ==
    IF height > 1 THEN EmptyLot_empty_line(self.width)
    ELSE EmptyLot_trash_to_width(self, EmptyLot_change_spaces(self.trash))

\* street_parts[0].at_height(height): the method of the element's class
at_height(part, height) ==
    CASE part.kind = "Building" -> Building_at_height(part, height)
      [] part.kind = "Park" -> Park_at_height(part, height)
      [] part.kind = "EmptyLot" -> EmptyLot_at_height(part, height)

(***************************************************************************)
(* Module-level functions.                                                 *)
(***************************************************************************)
\* the three type tests of create_street on street_part[0], the constructor
\* arguments evaluated left to right; parameters is the split parameter list
parse_parameters(type_char, parameters, parts_list) ==
    LET p0 == py_int(parameters[1])
        p1 == py_int(parameters[2])
    IN  IF type_char = "b" THEN
            IF p0.err # "none" THEN Raise(p0.err)
            ELSE IF Len(parameters) < 2 THEN Raise("IndexError")
            ELSE IF p1.err # "none" THEN Raise(p1.err)
            ELSE IF Len(parameters) < 3 THEN Raise("IndexError")
            ELSE Ok(Append(parts_list, Building(p0.val, p1.val, parameters[3])))
        ELSE IF type_char = "p" THEN
            IF p0.err # "none" THEN Raise(p0.err)
            ELSE IF Len(parameters) < 2 THEN Raise("IndexError")
            ELSE Ok(Append(parts_list, Park(p0.val, parameters[2])))
        ELSE IF type_char = "e" THEN
            IF p0.err # "none" THEN Raise(p0.err)
            ELSE IF Len(parameters) < 2 THEN Raise("IndexError")
            ELSE Ok(Append(parts_list, EmptyLot(p0.val, parameters[2])))
        ELSE Ok(parts_list)

\* mutant: the parameter list is taken from street_part[1:]
parse_part_slice_from_1(street_part, parts_list) ==
    parse_parameters(street_part[1],
                     py_split(SubSeq(street_part, 2, Len(street_part)), ","),
                     parts_list)

\* the body of create_street for one street_part: street_part[2:].split(',')
parse_part(street_part, parts_list) ==
    parse_parameters(street_part[1],
                     py_split(SubSeq(street_part, 3, Len(street_part)), ","),
                     parts_list)

RECURSIVE max_height(_, _)
max_height(street_parts, max_h) ==
    IF Len(street_parts) = 0 THEN max_h
    ELSE max_height(Tail(street_parts),
                    IF street_parts[1].height > max_h THEN street_parts[1].height
                    ELSE max_h)

RECURSIVE street_line(_, _)
street_line(street_parts, height) ==
    IF Len(street_parts) = 0 THEN Ok(<<>>)
    ELSE Cat(at_height(street_parts[1], height),
             street_line(Tail(street_parts), height))

RECURSIVE find_width(_)
find_width(street_parts) ==
    IF Len(street_parts) = 0 THEN 0
    ELSE street_parts[1].width + find_width(Tail(street_parts))

RECURSIVE border_line_raises(_, _)
border_line_raises(width, depth) ==
    IF width = 0 THEN "none"
    ELSE IF depth >= RecursionLimit THEN "RecursionError"
    ELSE border_line_raises(width - 1, depth + 1)

RECURSIVE border_line_rec(_, _)
border_line_rec(width, f) ==
    IF width = 0 THEN <<>> ELSE f \o border_line_rec(width - 1, f)

\* mutant: the base case is reached one call late
border_line_one_more(width, fill) ==
    IF border_line_raises(width + 1, 0) # "none"
    THEN Raise(border_line_raises(width + 1, 0))
    ELSE Ok(border_line_rec(width + 1, fill))

border_line(width, fill) ==
    IF border_line_raises(width, 0) # "none"
    THEN Raise(border_line_raises(width, 0))
    ELSE Ok(border_line_rec(width, fill))

(***************************************************************************)
(* Input lines.  A token is written from a descriptor: a type character    *)
(* and a list of fields, each a number or a text.                          *)
(***************************************************************************)
N(n) == [num |-> TRUE, n |-> n, s |-> <<>>]
S(s) == [num |-> FALSE, n |-> 0, s |-> s]
D(t, f) == [t |-> t, f |-> f]

RECURSIVE NatToStr(_)
NatToStr(n) ==
    IF n < 10 THEN <<DigitChars[n + 1]>>
    ELSE NatToStr(n \div 10) \o <<DigitChars[(n % 10) + 1]>>

IntToStr(n) == IF n < 0 THEN <<"-">> \o NatToStr(0 - n) ELSE NatToStr(n)

FieldText(fld) == IF fld.num THEN IntToStr(fld.n) ELSE fld.s

RECURSIVE JoinFields(_)
JoinFields(f) ==
    IF f = <<>> THEN <<>>
    ELSE IF Len(f) = 1 THEN FieldText(f[1])
    ELSE FieldText(f[1]) \o <<",">> \o JoinFields(Tail(f))

TokenText(d) == <<d.t, "_">> \o JoinFields(d.f)

\* the first n characters of x_yx_y...
TrashPattern(n) == [i \in 1..n |-> <<"x", "_", "y">>[((i - 1) % 3) + 1]]

\* one-storey buildings of every width, and a narrow tall one
BuildingDescs ==
    {D("b", <<N(w), N(1), S(<<"#">>)>>) : w \in 1..MaxBW}
        \cup {D("b", <<N(1), N(MaxBH), S(<<"#">>)>>)}
ParkDescs == {D("p", <<N(w), S(<<"*">>)>>) : w \in 4..MaxPW}
\* the narrowest and the widest lot, with every pattern
LotDescs ==
    {D("e", <<N(w), S(TrashPattern(n))>>) : w \in {1, MaxLW}, n \in 0..MaxPat}
OddDescs ==
    { D("x", <<N(1), N(2)>>),
      D("b", <<S(<<"a">>), N(1), S(<<"#">>)>>),
      D("p", <<N(5)>>),
      D("p", <<N(5), S(<<"*">>), S(<<"z">>)>>),
      D("b", <<N(0 - 1), N(1), S(<<"#">>)>>) }
TokenDescs == BuildingDescs \cup ParkDescs \cup LotDescs \cup OddDescs

\* b_4,3,# p_5,* e_3,x_y
ExampleStreet ==
    << D("b", <<N(4), N(3), S(<<"#">>)>>),
       D("p", <<N(5), S(<<"*">>)>>),
       D("e", <<N(3), S(<<"x", "_", "y">>)>>) >>

Streets ==
    UNION {[1..n -> TokenDescs] : n \in 0..MaxParts} \cup {ExampleStreet}

(***************************************************************************)
(* main(): the state of one run.                                           *)
(***************************************************************************)
VARIABLES
    desc,        \* the descriptors the input line was written from
    parts,       \* create_street: the tokens not parsed yet
    parts_list,  \* create_street: the elements parsed so far (street_parts)
    max_h,       \* main: max_h
    width,       \* main: width
    height,      \* print_street: height
    out,         \* the lines printed so far
    pc,          \* the statement of main() the run is at
    err          \* the uncaught exception that ended the run, or "none"

vars == <<desc, parts, parts_list, max_h, width, height, out, pc, err>>

Init ==
    /\ desc \in Streets
    /\ parts = [i \in 1..Len(desc) |-> TokenText(desc[i])]
    /\ parts_list = <<>>
    /\ max_h = 0
    /\ width = 0
    /\ height = 0
    /\ out = <<>>
    /\ pc = "create_street"
    /\ err = "none"

Crash(e) ==
    /\ pc' = "crashed"
    /\ err' = e
    /\ UNCHANGED <<desc, parts, parts_list, max_h, width, height, out>>

\* mutant: a part that cannot be parsed is dropped and the rest parsed
CreateStreetStep_skips_bad_part ==
    /\ pc = "create_street"
    /\ Len(parts) # 0
    /\ LET r == parse_part(parts[1], parts_list)
       IN  /\ parts_list' = IF r.err # "none" THEN parts_list ELSE r.val
           /\ parts' = Tail(parts)
           /\ UNCHANGED <<desc, max_h, width, height, out, pc, err>>

\* one level of create_street with a part left
CreateStreetStep ==
    /\ pc = "create_street"
    /\ Len(parts) # 0
    /\ LET r == parse_part(parts[1], parts_list)
       IN  IF r.err # "none" THEN Crash(r.err)
           ELSE /\ parts_list' = r.val
                /\ parts' = Tail(parts)
                /\ UNCHANGED <<desc, max_h, width, height, out, pc, err>>

\* the base case of create_street: street_parts is returned to main
CreateStreetReturn ==
    /\ pc = "create_street"
    /\ Len(parts) = 0
    /\ pc' = "max_height"
    /\ UNCHANGED <<desc, parts, parts_list, max_h, width, height, out, err>>

MaxHeight ==
    /\ pc = "max_height"
    /\ max_h' = max_height(parts_list, 0)
    /\ pc' = "find_width"
    /\ UNCHANGED <<desc, parts, parts_list, width, height, out, err>>

FindWidth ==
    /\ pc = "find_width"
    /\ width' = find_width(parts_list)
    /\ pc' = "top_border"
    /\ UNCHANGED <<desc, parts, parts_list, max_h, height, out, err>>

PrintTopBorder ==
    /\ pc = "top_border"
    /\ LET r == Cat(Cat(Ok(<<"+">>), border_line(width, <<"-">>)), Ok(<<"+">>))
       IN  IF r.err # "none" THEN Crash(r.err)
           ELSE /\ out' = Append(out, r.val)
                /\ pc' = "padding"
                /\ UNCHANGED <<desc, parts, parts_list, max_h, width, height, err>>

\* mutant: the padding row is not printed
PrintPadding_skipped ==
    /\ pc = "padding"
    /\ height' = max_h
    /\ pc' = "print_street"
    /\ UNCHANGED <<desc, parts, parts_list, max_h, width, out, err>>

PrintPadding ==
    /\ pc = "padding"
    /\ LET r == Cat(Cat(Ok(<<"|">>), border_line(width, <<" ">>)), Ok(<<"|">>))
       IN  IF r.err # "none" THEN Crash(r.err)
           ELSE /\ out' = Append(out, r.val)
                /\ height' = max_h
                /\ pc' = "print_street"
                /\ UNCHANGED <<desc, parts, parts_list, max_h, width, err>>

\* one level of print_street with a line left
PrintStreetStep ==
    /\ pc = "print_street"
    /\ height # 0
    /\ LET r == Cat(Cat(Ok(<<"|">>), street_line(parts_list, height)), Ok(<<"|">>))
       IN  IF r.err # "none" THEN Crash(r.err)
           ELSE /\ out' = Append(out, r.val)
                /\ height' = height - 1
                /\ UNCHANGED <<desc, parts, parts_list, max_h, width, pc, err>>

\* the base case of print_street
PrintStreetReturn ==
    /\ pc = "print_street"
    /\ height = 0
    /\ pc' = "bottom_border"
    /\ UNCHANGED <<desc, parts, parts_list, max_h, width, height, out, err>>

PrintBottomBorder ==
    /\ pc = "bottom_border"
    /\ LET r == Cat(Cat(Ok(<<"+">>), border_line(width, <<"-">>)), Ok(<<"+">>))
       IN  IF r.err # "none" THEN Crash(r.err)
           ELSE /\ out' = Append(out, r.val)
                /\ pc' = "done"
                /\ UNCHANGED <<desc, parts, parts_list, max_h, width, height, err>>

Next ==
    \/ CreateStreetStep
    \/ CreateStreetReturn
    \/ MaxHeight
    \/ FindWidth
    \/ PrintTopBorder
    \/ PrintPadding
    \/ PrintStreetStep
    \/ PrintStreetReturn
    \/ PrintBottomBorder

Spec == Init /\ [][Next]_vars

(***************************************************************************)
(* What the claims speak of, stated over the descriptors of the input      *)
(* line and the printed lines.                                             *)
(***************************************************************************)
Min(a, b) == IF a < b THEN a ELSE b

\* n copies of the text s
RECURSIVE Copies(_, _)
Copies(n, s) == IF n <= 0 THEN <<>> ELSE s \o Copies(n - 1, s)

Arity(t) == IF t = "b" THEN 3 ELSE 2
SizeFields(t) == IF t = "b" THEN 2 ELSE 1
Recognized(d) == d.t \in {"b", "p", "e"}
NonNumericSize(d) ==
    /\ Recognized(d)
    /\ \E i \in 1..Min(Len(d.f), SizeFields(d.t)) : ~d.f[i].num
TooFew(d) == Recognized(d) /\ Len(d.f) < Arity(d.t)
TooMany(d) == Recognized(d) /\ Len(d.f) > Arity(d.t)
\* malformed in the sense of the error-handling section
Malformed(d) == ~Recognized(d) \/ NonNumericSize(d) \/ TooFew(d) \/ TooMany(d)
\* a token create_street cannot get past
Fatal(d) == NonNumericSize(d) \/ TooFew(d)
\* a token of the grammar, or one of another type character
WellFormedToken(d) ==
    Recognized(d) => (Len(d.f) = Arity(d.t) /\ ~NonNumericSize(d))

\* the element a recognized, non-fatal token stands for
ExpectedElem(d) ==
    CASE d.t = "b" -> Building(d.f[1].n, d.f[2].n, FieldText(d.f[3]))
      [] d.t = "p" -> Park(d.f[1].n, FieldText(d.f[2]))
      [] d.t = "e" -> EmptyLot(d.f[1].n, FieldText(d.f[2]))

ExpectedElems(ds) ==
    LET rec == SelectSeq(ds, Recognized)
    IN  [i \in 1..Len(rec) |-> ExpectedElem(rec[i])]

\* the data-model preconditions of an element
ElemPre(e) ==
    CASE e.kind = "Building" -> e.width >= 1 /\ e.height >= 1 /\ Len(e.brick) = 1
      [] e.kind = "Park" -> e.width >= 5 /\ e.width % 2 = 1 /\ Len(e.fol) = 1
      [] e.kind = "EmptyLot" -> e.width >= 1 /\ Len(e.trash) >= 1

EvenPark(e) == e.kind = "Park" /\ e.width >= 6 /\ e.width % 2 = 0 /\ Len(e.fol) = 1

NoFatal == \A i \in 1..Len(desc) : ~Fatal(desc[i])
Elems == ExpectedElems(desc)
StreetOK == NoFatal /\ \A i \in 1..Len(Elems) : ElemPre(Elems[i])

RECURSIVE SumWidths(_)
SumWidths(es) == IF es = <<>> THEN 0 ELSE es[1].width + SumWidths(Tail(es))

TotalWidth == SumWidths(Elems)
MaxHeightOfStreet ==
    IF Elems = <<>> THEN 0
    ELSE CHOOSE h \in {Elems[i].height : i \in 1..Len(Elems)} :
            \A i \in 1..Len(Elems) : Elems[i].height <= h

BorderRow == <<"+">> \o Copies(TotalWidth, <<"-">>) \o <<"+">>
PaddingRow == <<"|">> \o Copies(TotalWidth, <<" ">>) \o <<"|">>

\* the content rows printed so far, numbered 1.. from the top of the canvas
NContent == IF Len(out) <= 2 THEN 0 ELSE Min(Len(out) - 2, max_h)
ContentRow(k) == out[k + 2]
\* the height print_street passed for content row k
HeightOfRow(k) == max_h - k + 1
\* the columns of element i in content row k: what the elements before it
\* contributed, then wide characters
RECURSIVE Offset(_, _)
Offset(i, h) ==
    IF i = 1 THEN 0
    ELSE Offset(i - 1, h) + Len(at_height(parts_list[i - 1], h).val)
Columns(i, k, wide) ==
    SubSeq(ContentRow(k), 2 + Offset(i, HeightOfRow(k)),
           1 + Offset(i, HeightOfRow(k)) + wide)

Parsed == pc \notin {"create_street"} /\ err \notin {"ValueError", "IndexError"}

(***************************************************************************)
(* C1.  For a street whose elements satisfy the preconditions the run does *)
(* not fail and prints maxHeight + 3 lines: the top border, one padding    *)
(* row, maxHeight content rows '|' + composed row + '|', then the bottom   *)
(* border, equal to the top border.  Every state of the run has printed a  *)
(* prefix of that canvas, so the padding row comes once, before the first  *)
(* content row, and the bottom border comes last.                          *)
(***************************************************************************)
C1_Canvas ==
    StreetOK =>
        /\ pc # "crashed"
        /\ Len(out) <= MaxHeightOfStreet + 3
        /\ \A k \in 1..Len(out) :
              /\ k = 1 => out[k] = BorderRow
              /\ k = 2 => out[k] = PaddingRow
              /\ (2 < k /\ k <= MaxHeightOfStreet + 2) =>
                    /\ out[k] = <<"|">>
                          \o street_line(parts_list, MaxHeightOfStreet - (k - 3)).val
                          \o <<"|">>
                    /\ Len(out[k]) = TotalWidth + 2
                    /\ out[k] # BorderRow
              /\ k = MaxHeightOfStreet + 3 => out[k] = BorderRow
        /\ pc = "done" => Len(out) = MaxHeightOfStreet + 3
        /\ pc \in {"top_border"} => Len(out) = 0
        /\ pc = "padding" => Len(out) = 1
        /\ pc = "print_street" => Len(out) = 2 + (max_h - height)
        /\ pc = "bottom_border" => Len(out) = MaxHeightOfStreet + 2

C1_Witness ==
    /\ StreetOK
    /\ pc = "done"
    /\ Len(Elems) >= 2
    /\ MaxHeightOfStreet >= 5
    /\ Len(out) = MaxHeightOfStreet + 3

(***************************************************************************)
(* C2.  For a street whose elements satisfy the preconditions: every       *)
(* element's at_height(r), r in 1..maxHeight, returns exactly width()      *)
(* characters; find_width is the sum of the element widths; max_height is  *)
(* the largest element height and the number of content rows; and every    *)
(* composed row has length totalWidth.                                     *)
(***************************************************************************)
C2_Lengths ==
    (StreetOK /\ Parsed) =>
        /\ \A i \in 1..Len(parts_list) : \A r \in 1..MaxHeightOfStreet :
              /\ at_height(parts_list[i], r).err = "none"
              /\ Len(at_height(parts_list[i], r).val) = Elems[i].width
        /\ \A r \in 1..MaxHeightOfStreet :
              Len(street_line(parts_list, r).val) = TotalWidth
        /\ pc \notin {"max_height"} => max_h = MaxHeightOfStreet
        /\ pc \notin {"max_height", "find_width"} => width = TotalWidth
        /\ pc = "done" => Len(out) - 3 = MaxHeightOfStreet
        /\ \A k \in 1..NContent : Len(ContentRow(k)) = TotalWidth + 2

C2_Witness ==
    /\ StreetOK
    /\ pc = "done"
    /\ \E i \in 1..Len(parts_list) :
          parts_list[i].kind = "EmptyLot"
          /\ Len(parts_list[i].trash) < parts_list[i].width
          /\ parts_list[i].width % Len(parts_list[i].trash) # 0
    /\ \E i \in 1..Len(parts_list) : parts_list[i].kind = "Park"

(***************************************************************************)
(* C6.  The empty input line.  As claimed: the output is two lines, both   *)
(* '++', with no padding row.                                              *)
(***************************************************************************)
C6_Original ==
    (desc = <<>> /\ pc = "done") => out = << <<"+", "+">>, <<"+", "+">> >>

(***************************************************************************)
(* C6, amended.  For the empty input line totalWidth and maxHeight are 0   *)
(* and the output is three lines: '++', the padding row '||', '++'.        *)
(***************************************************************************)
C6_EmptyStreet ==
    desc = <<>> =>
        /\ pc # "crashed"
        /\ parts_list = <<>> /\ max_h = 0 /\ width = 0
        /\ pc = "done" =>
              out = << <<"+", "+">>, <<"|", "|">>, <<"+", "+">> >>

C6_Witness == desc = <<>> /\ pc = "done" /\ Len(out) = 3

IsBuilding(i) == parts_list[i].kind = "Building"
IsPark(i) == parts_list[i].kind = "Park"
IsLot(i) == parts_list[i].kind = "EmptyLot"

Centred(w, band, ch) ==
    Copies((w - band) \div 2, <<" ">>) \o Copies(band, ch)
        \o Copies((w - band) \div 2, <<" ">>)

\* the tree of a park, top to bottom
TreeRow(j, w, f) ==
    CASE j = 1 -> Centred(w, 1, f)
      [] j = 2 -> Centred(w, 3, f)
      [] j = 3 -> Centred(w, 5, f)
      [] j = 4 -> Centred(w, 1, <<"|">>)
      [] j = 5 -> Centred(w, 1, <<"|">>)

C4_ParkTree ==
    \A i \in 1..Len(parts_list) :
        (IsPark(i) /\ parts_list[i].width >= 5 /\ parts_list[i].width % 2 = 1) =>
            /\ parts_list[i].height = 5
            /\ (Parsed /\ pc # "max_height") => max_h >= 5
            /\ \A k \in 1..NContent :
                  /\ Len(Columns(i, k, parts_list[i].width)) = parts_list[i].width
                  /\ Columns(i, k, parts_list[i].width) =
                        IF k <= max_h - 5
                        THEN Copies(parts_list[i].width, <<" ">>)
                        ELSE TreeRow(k - (max_h - 5), parts_list[i].width,
                                     parts_list[i].fol)

C4_Witness ==
    /\ pc = "done"
    /\ max_h > 5
    /\ NContent = max_h
    /\ \E i \in 1..Len(parts_list) :
          IsPark(i) /\ i > 1 /\ parts_list[i].width > 5
          /\ parts_list[i].width % 2 = 1

(***************************************************************************)
(* C5.  As claimed: for an EmptyLot of width w >= 1 and any trash pattern, *)
(* whatever its length, the trash row has no underscore, has length w, and *)
(* is the normalized pattern cut to w characters or tiled, character i     *)
(* being character i mod len(pattern) of the normalized pattern.           *)
(***************************************************************************)
Normalized(c) == IF c = "_" THEN " " ELSE c

TrashRowAsClaimed(lot) ==
    LET row == EmptyLot_at_height(lot, 1)
    IN  /\ row.err = "none"
        /\ Len(row.val) = lot.width
        /\ \A i \in 1..Len(row.val) : row.val[i] # "_"
        /\ Len(lot.trash) > 0 =>
              \A i \in 1..Len(row.val) :
                  row.val[i] = Normalized(lot.trash[((i - 1) % Len(lot.trash)) + 1])

C5_Original ==
    \A i \in 1..Len(parts_list) :
        (IsLot(i) /\ parts_list[i].width >= 1) => TrashRowAsClaimed(parts_list[i])

\* C5 for the patterns that have a character: the same statement, which
\* holds of every EmptyLot whose pattern is not empty
C5_NonEmptyPattern ==
    \A i \in 1..Len(parts_list) :
        (IsLot(i) /\ parts_list[i].width >= 1 /\ Len(parts_list[i].trash) >= 1) =>
            /\ TrashRowAsClaimed(parts_list[i])
            /\ \A k \in 1..NContent :
                  k = max_h =>
                      Columns(i, k, parts_list[i].width) =
                          EmptyLot_at_height(parts_list[i], 1).val

(***************************************************************************)
(* C7.  For well-formed tokens create_street returns one element per token *)
(* whose first character is b, p or e, built from the comma-separated      *)
(* parameters after the first two characters, in the order of the tokens;  *)
(* a token with another first character adds nothing and raises nothing,   *)
(* and the tokens after it are processed.                                  *)
(***************************************************************************)
AllWellFormed == \A i \in 1..Len(desc) : WellFormedToken(desc[i])

C7_CreateStreet ==
    AllWellFormed =>
        /\ err \notin {"ValueError", "IndexError"}
        /\ pc = "create_street" =>
              parts_list = ExpectedElems(SubSeq(desc, 1, Len(desc) - Len(parts)))
        /\ pc # "create_street" =>
              /\ parts = <<>>
              /\ parts_list = ExpectedElems(desc)
              /\ Len(parts_list) =
                    Cardinality({i \in 1..Len(desc) : Recognized(desc[i])})

C7_Witness ==
    /\ AllWellFormed
    /\ pc = "max_height"
    /\ Len(desc) >= 2
    /\ ~Recognized(desc[1])
    /\ Recognized(desc[2])
    /\ Len(parts_list) = 1
    /\ parts_list[1].width >= 1

(***************************************************************************)
(* C8.  As claimed: an input line with a malformed token (unrecognized     *)
(* type character, non-numeric size field, too few or too many parameters) *)
(* ends in an uncaught failure and never in a rendered canvas.             *)
(***************************************************************************)
C8_Original ==
    (\E i \in 1..Len(desc) : Malformed(desc[i])) => pc # "done"

(***************************************************************************)
(* C8, amended.  An input line with a token of type b, p or e that has a   *)
(* non-numeric size field or fewer parameters than its type takes ends in  *)
(* an uncaught ValueError or IndexError inside create_street, before       *)
(* anything is printed.  A token with another type character is skipped,   *)
(* and parameters beyond those its type takes are ignored: neither stops   *)
(* the canvas from being rendered.                                         *)
(***************************************************************************)
FirstFatal == CHOOSE i \in 1..Len(desc) :
                  Fatal(desc[i]) /\ \A j \in 1..(i - 1) : ~Fatal(desc[j])

C8_FatalTokens ==
    /\ ~NoFatal =>
          /\ pc \in {"create_street", "crashed"}
          /\ out = <<>>
          /\ pc = "create_street" => Len(parts) > Len(desc) - FirstFatal
          /\ pc = "crashed" =>
                /\ err \in {"ValueError", "IndexError"}
                /\ Len(parts) = Len(desc) - FirstFatal + 1
    /\ (NoFatal /\ pc = "crashed") => err \notin {"ValueError", "IndexError"}
    /\ (StreetOK /\ \A i \in 1..Len(desc) : ~Recognized(desc[i]) \/ TooMany(desc[i]))
          => pc # "crashed"

C8_Witness ==
    /\ pc = "crashed"
    /\ err = "IndexError"
    /\ Len(desc) = 2
    /\ ~Fatal(desc[1])
    /\ TooFew(desc[2])

(***************************************************************************)
(* C9.  As claimed: whenever the tokens parse into elements (integer size  *)
(* fields, enough parameters) the run does not fail: every recursion       *)
(* reaches its base case and the bottom border is printed.                 *)
(***************************************************************************)
C9_Original == NoFatal => pc # "crashed"

(***************************************************************************)
(* C10.  In a street whose other elements satisfy the preconditions, with  *)
(* Parks of even width w >= 6: the run does not fail; each of such a       *)
(* Park's five tree rows has w - 1 characters while its blank rows (above  *)
(* height 5) and find_width count w; so the border and the padding row are *)
(* totalWidth + 2 long, the content rows above height 5 too, and each of   *)
(* the five lowest content rows is shorter by one character per such Park. *)
(***************************************************************************)
EvenParks == {i \in 1..Len(Elems) : EvenPark(Elems[i])}

StreetWithEvenParks ==
    /\ NoFatal
    /\ EvenParks # {}
    /\ \A i \in 1..Len(Elems) : ElemPre(Elems[i]) \/ EvenPark(Elems[i])

C10_EvenPark ==
    StreetWithEvenParks =>
        /\ pc # "crashed"
        /\ pc \notin {"create_street", "max_height", "find_width"} =>
              /\ width = TotalWidth
              /\ \A i \in EvenParks : \A h \in 1..(max_h + 1) :
                    /\ at_height(parts_list[i], h).err = "none"
                    /\ Len(at_height(parts_list[i], h).val) =
                          IF h <= 5 THEN parts_list[i].width - 1
                          ELSE parts_list[i].width
        /\ \A k \in 1..Len(out) :
              Len(out[k]) =
                  IF k > 2 /\ k <= max_h + 2 /\ HeightOfRow(k - 2) <= 5
                  THEN TotalWidth + 2 - Cardinality(EvenParks)
                  ELSE TotalWidth + 2
        /\ pc = "done" => Len(out) = max_h + 3

C10_Witness ==
    /\ StreetWithEvenParks
    /\ pc = "done"
    /\ max_h > 5
    /\ Len(out[3]) = Len(out[1])
    /\ Len(out[4]) = Len(out[1]) - 1

====
